---------------------------- MODULE Spec2Model ----------------------------
(***************************************************************************)
(* KU-Fleet telemetry pipeline: the GT06 TCP server, handleParsedMessage   *)
(* (services/gpsHandler.ts), the coordinate buffer (services/gpsBuffer.ts) *)
(* and the tripQueue worker (workers/workers.ts).                          *)
(*                                                                         *)
(* Every async function is cut at its awaits: one action is "the awaited   *)
(* operation completes and the code runs on to the next await".  The       *)
(* repository holds two revisions of gpsHandler.ts that the claims cite;   *)
(* both are modelled, as the step functions H3 (part_003, with the station *)
(* geofence) and H5 (part_005, with acquireLock); the variable revision    *)
(* says which of them the process runs.                                    *)
(*                                                                         *)
(* Specifications:                                                         *)
(*   SpecTcp      one connection of the TCP server                         *)
(*   SpecBuffer   the coordinate buffer driven by its callers              *)
(*   Spec         the pipeline with revision 3 of the handler              *)
(*   SpecV5       the pipeline with revision 5 of the handler              *)
(*   SpecAlert    overspeed alerts of revision 3, minute by minute         *)
(*   SpecAlertV5  alerts of revision 5, minute by minute                   *)
(*   SpecAck         the TCP server (either revision) with frames needing  *)
(*                   an acknowledgement and chunks that fail to parse      *)
(*   SpecFail        the handler (either revision) with failing stores     *)
(*   SpecCleanup     the cleanup queue worker (workers/analyticsWorker.ts) *)
(*   SpecSustained   the coordinate buffer while every flush fails         *)
(*   SpecWorker      the tripQueue worker, trip starts and RFID scans      *)
(*   SpecInactivity  the pipeline of revision 3 over quarter hours         *)
(*   SpecRestart     the pipeline of revision 3 with process restarts      *)
(*   SpecImei        getBusIdForImei (utils/imeiCache.ts) and its timers   *)
(*   SpecService     SpecWorker with TripService.endTrip (part_009)        *)
(***************************************************************************)
EXTENDS Integers, Sequences, FiniteSets, TLC

\* ------------------------------------------------------------------ bounds
MaxEvents == 3
MaxPerChunk == 2
MaxMsgs == 3
MaxBufCalls == 2
MaxBufTicks == 1
MaxCalls == 2
MaxTicks == 1
MaxAlertTicks == 2
MaxAlertMsgs == 2
MaxIdleTicks == 2
MaxAckEvents == 2
MaxAckPerChunk == 2
MaxFailMsgs == 2
MaxCleanupTicks == 2
MaxSustainedCalls == 102
MaxJobs == 2
MaxScans == 2
MaxTrips == 2
MaxResolves == 3
MaxImeiTicks == 4
StartClock == 100000

\* ------------------------------------------------------- program constants
STATION_PROXIMITY_METERS == 60
MIN_SPEED_KMH == 5
REDIS_LOCATION_THROTTLE_SEC == 10
ALERT_DEDUPE_SECONDS == 120
INACTIVITY_END_MIN == 30
SPEED_LIMIT_KMH == 80
END_SPEED_KMH == 3
FLUSH_INTERVAL_MS == 30000
MIN_DISTANCE_METERS == 10
MAX_BUFFER_SIZE == 50
REDIS_COOLDOWN == 600
IMEI_TTL == 300
\* 0.0001 degrees of latitude, in metres, and the speed delta of the cache write
CACHE_DELTA_METERS == 11
CACHE_DELTA_SPEED == 5

NoBus == "none"

VARIABLES
    \* tcpServer.ts: one connection
    msgBuffer,      \* gt06.msgBuffer: decoded messages not yet cleared
    conn,           \* per data event: the state of its async callback
    dispatched,     \* log: message ids in the order handleParsedMessage was called
    arrived,        \* number of messages decoded so far on the connection
    serverRev,      \* which revision of tcpServer.ts runs: "tcpServer" or "part_016"
    gt06,           \* gt06.expectsResponse and gt06.responseMsg
    frames,         \* log: message id -> the frame it was decoded from
    written         \* log: the acknowledgment frames written to the connection

tcpVars == <<msgBuffer, conn, dispatched, arrived, serverRev, gt06, frames, written>>

VARIABLES
    clock,          \* Date.now(), in seconds
    ncalls          \* number of positions handed to the pipeline so far

VARIABLES
    \* services/gpsBuffer.ts
    coordinateBuffer,   \* busId -> buffered points (in order)
    lastFlushTime,      \* busId -> time of the last flush, 0 when the map has no entry
    lastCoords,         \* busId -> <<position of the last accepted point>>, <<>> with no entry
    inflight,           \* TripLog.updateOne calls of flushBusCoordinates not yet settled
    accepted,           \* log: busId -> the points bufferCoordinate pushed, in order
    overlapped,         \* log: busId -> a flush was started while another was in flight
    call                \* log: the arguments of the latest bufferCoordinate call of B_Buffer

bufVars == <<coordinateBuffer, lastFlushTime, lastCoords, inflight, accepted,
             overlapped, call>>

VARIABLES
    trips           \* the TripLog collection, in insertion order

VARIABLES
    \* services/gpsHandler.ts
    revision,           \* which revision of gpsHandler.ts the process runs: 3 or 5
    acceptedFor,        \* log: <<bus, point, trip>> for each point the buffer accepted
                        \* from the handler while that trip was the bus's active trip
    h,                  \* per call slot: the position and locals of a handleParsedMessage call
    alerts,             \* the Alert collection (a set of documents)
    emits,              \* log: the GPS_DATA events emitted, as the set of [ts, busId]
    redisLock,          \* dedupe / lock keys of Redis: key -> expiry time, 0 when absent
    lockAcquiredAt,     \* log: key -> time of the latest successful acquisition
    locCache,           \* location keys of Redis: bus or IMEI -> <<point>>, <<>> when absent
    lastRedisWriteAt,   \* imei -> time of the last location write, 0 with no entry
    lastLocationCache,  \* busId -> <<point last written>>, <<>> with no entry
    lastMovementAt,     \* imei -> time of the last movement, 0 with no entry
    rejected,           \* log: the calls (by ts) whose promise was rejected
    failedOps,          \* log: <<ts of the call, operation>> for each awaited operation that threw
    \* workers
    tripQueue,          \* the BullMQ trip queue: jobs waiting
    worker,             \* the trip worker: idle, or the endTrip job it is processing
    jobLog              \* log: the endTrip jobs that left the queue, with their outcome

pipeVars == <<revision, acceptedFor, h, alerts, emits, redisLock, lockAcquiredAt, locCache, lastRedisWriteAt,
              lastLocationCache, lastMovementAt, rejected, failedOps, tripQueue, worker,
              jobLog>>

VARIABLES
    \* workers/analyticsWorker.ts: the cleanup worker and its queue
    cleanupJobs,        \* job name -> state of the job of that name in cleanupQueue
    redisHealthy,       \* let redisHealthy
    lastRedisError      \* let lastRedisError (seconds)

cleanupVars == <<cleanupJobs, redisHealthy, lastRedisError>>

VARIABLES
    \* controllers/rfidController.ts
    rfidLog             \* the RFIDLog collection, in insertion order

VARIABLES
    \* utils/imeiCache.ts
    memoryCache,        \* imei -> <<busId>>, <<>> with no entry
    populatedAt,        \* log: imei -> time of the latest memoryCache.set
    evictTimers,        \* the pending setTimeout callbacks: [imei, at]
    imeiKey,            \* the Redis keys imei:bus:<imei>: imei -> expiry time, 0 when absent
    resolve             \* the getBusIdForIMEI call in progress

imeiVars == <<memoryCache, populatedAt, evictTimers, imeiKey, resolve>>

extVars == <<rfidLog, imeiVars>>

vars == <<tcpVars, clock, ncalls, bufVars, trips, pipeVars, cleanupVars, extVars>>

\* ===================================================================
\* tcp/tcpServer.ts
\* ===================================================================
Events == 1..MaxEvents

ServerRevs == {"tcpServer", "part_016"}

\* ---- the protocol codec (the gt06 package: only its declaration is in the
\* repository).  A frame is a login, a heartbeat/status or a location frame.
FrameKinds == {"login", "heartbeat", "location"}

\* the one-byte message-type code of a frame
Code(kind) ==
    CASE kind = "login" -> 1
      [] kind = "heartbeat" -> 19
      [] kind = "location" -> 18

\* login and heartbeat frames require an acknowledgment
NeedsAck(kind) == kind \in {"login", "heartbeat"}

NoAck == [code |-> 0, serial |-> 0]

\* the acknowledgment frame of a frame: it mirrors the message-type code and
\* the serial number (the arrival number stands for it)
createResponse(kind, id) == [code |-> Code(kind), serial |-> id]

\* what frames logs for the frames fs decoded from the chunk of data
\* event e (failed: the parse of that chunk threw after them)
Decoded(fs, e, failed) ==
    [i \in 1..Len(fs) |-> [kind |-> fs[i], chunk |-> e, failed |-> failed]]

\* gt06.expectsResponse / gt06.responseMsg after a successful parse of a
\* chunk whose frames are fs, numbered first + 1 .. first + Len(fs): the
\* object has ONE responseMsg; it is the acknowledgment of the last frame of
\* the chunk that requires one
ParseState(fs, first) ==
    LET need == {i \in 1..Len(fs) : NeedsAck(fs[i])} IN
    IF need = {} THEN [expectsResponse |-> FALSE, responseMsg |-> NoAck]
    ELSE LET l == CHOOSE i \in need : \A j \in need : j <= i
         IN  [expectsResponse |-> TRUE, responseMsg |-> createResponse(fs[l], first + l)]

\* for (const msg of gt06.msgBuffer) { await handleParsedMessage(msg) } ;
\* gt06.clearMsgBuffer(): the array iterator re-reads the live length at
\* every step, so the loop body runs for index i iff i <= Len(buffer) now.
LoopStep(e, i, buf) ==
    IF i <= Len(buf)
    THEN /\ dispatched' = Append(dispatched, buf[i])
         /\ conn' = [conn EXCEPT ![e] = [st |-> "awaiting", idx |-> i]]
         /\ msgBuffer' = buf
    ELSE /\ dispatched' = dispatched
         /\ conn' = [conn EXCEPT ![e] = [st |-> "done", idx |-> i]]
         /\ msgBuffer' = <<>>

\* gt06.parse(data): every decoded message is pushed onto gt06.msgBuffer
Parse(buf, k) ==
    buf \o [i \in 1..k |-> arrived + i]

\* the catch block of gt06.parse(data): tcpServer.ts returns; part_016 skips
\* the acknowledgment and the loop and hands the raw packet (logged as -e)
\* to handleParsedMessage.  Neither clears gt06.msgBuffer.
OnParseError(e, buf) ==
    /\ msgBuffer' = buf
    /\ UNCHANGED <<gt06, written>>
    /\ IF serverRev = "part_016"
       THEN /\ dispatched' = Append(dispatched, 0 - e)
            /\ conn' = [conn EXCEPT ![e] = [st |-> "awaitingExt", idx |-> 0]]
       ELSE /\ dispatched' = dispatched
            /\ conn' = [conn EXCEPT ![e] = [st |-> "done", idx |-> 0]]

\* client.on("data", async (data) => ...) up to its first await.  The chunk
\* holds the frames fs; with fails, undecodable bytes follow them and
\* gt06.parse throws after decoding fs.
OnData(e, fs, fails) ==
    /\ conn[e].st = "idle"
    /\ \A d \in Events : d < e => conn[d].st # "idle"
    /\ arrived' = arrived + Len(fs)
    /\ frames' = frames \o Decoded(fs, e, fails)
    /\ IF fails
       THEN OnParseError(e, Parse(msgBuffer, Len(fs)))
       ELSE /\ gt06' = ParseState(fs, arrived)
            /\ written' = IF gt06'.expectsResponse /\ gt06'.responseMsg # NoAck
                          THEN Append(written, gt06'.responseMsg)
                          ELSE written
            /\ LoopStep(e, 1, Parse(msgBuffer, Len(fs)))
    /\ UNCHANGED <<serverRev, clock, ncalls, bufVars, trips, pipeVars, cleanupVars, extVars>>

\* the awaited handleParsedMessage(msg) settles (resolved or rejected: the
\* call is inside try/catch) and the loop goes on
OnDispatchReturn(e) ==
    /\ conn[e].st \in {"awaiting", "awaitingExt"}
    /\ IF conn[e].st = "awaiting"
       THEN LoopStep(e, conn[e].idx + 1, msgBuffer)
       ELSE /\ conn' = [conn EXCEPT ![e] = [st |-> "done", idx |-> 0]]
            /\ UNCHANGED <<dispatched, msgBuffer>>
    /\ UNCHANGED <<arrived, serverRev, gt06, frames, written>>
    /\ UNCHANGED <<clock, ncalls, bufVars, trips, pipeVars, cleanupVars, extVars>>

\* a connection has just been accepted by server revision rev
TcpStartOf(rev) ==
    /\ msgBuffer = <<>>
    /\ conn = [e \in Events |-> [st |-> "idle", idx |-> 0]]
    /\ dispatched = <<>>
    /\ arrived = 0
    /\ serverRev = rev
    /\ gt06 = [expectsResponse |-> FALSE, responseMsg |-> NoAck]
    /\ frames = <<>>
    /\ written = <<>>

TcpStart == TcpStartOf("tcpServer")


\* ===================================================================
\* Inputs
\* ===================================================================
Buses == {"b1", "b2"}

\* the buses whose positions drive the buffer in SpecBuffer
BufferBuses == {"b1"}

\* Positions are metres along a line through the first station of the route
\* (the station is at 0); haversineMeters is the distance on that line.
Positions == {0, 5, 100}
Speeds == {1, 20, 95}

\* the buffer does not read the speed of a point
BufferSpeeds == {20}

Dist(a, b) == IF a >= b THEN a - b ELSE b - a

Point(p, s, n) == [pos |-> p, speed |-> s, ts |-> n]

\* Date.now() advances
Tick(step, horizon) ==
    /\ clock + step <= StartClock + horizon
    /\ clock' = clock + step

\* ===================================================================
\* models/TripLog: the operations the pipeline uses
\* ===================================================================
\* TripLog.create({bus, startTime: coords.timestamp, coordinates: [coords],
\* status: "in_progress"}); the fields the call does not pass (distance,
\* duration, avgSpeed, passengerCount) are unset, written 0, and
\* endCoordinates, unset, is written <<>>;
\* endJobs logs the endTrip jobs enqueued by calls that found this trip active
NewTrip(b, pt, start) ==
    [bus |-> b, startTime |-> start, endTime |-> 0, status |-> "in_progress",
     coordinates |-> <<pt>>, distance |-> 0, duration |-> 0, avgSpeed |-> 0,
     passengerCount |-> 0, endCoordinates |-> <<>>, endJobs |-> 0]

ActiveTrips(ts, b) == {i \in DOMAIN ts : ts[i].bus = b /\ ts[i].endTime = 0}

FirstActive(ts, b) ==
    CHOOSE i \in ActiveTrips(ts, b) : \A j \in ActiveTrips(ts, b) : i <= j

\* TripLog.updateOne({bus, endTime: null}, {$push: {coordinates: {$each: batch}}}):
\* one matching document is updated; with no match nothing is written and
\* nothing is thrown.
PushCoordinates(ts, b, batch) ==
    IF ActiveTrips(ts, b) = {} THEN ts
    ELSE [ts EXCEPT ![FirstActive(ts, b)].coordinates = @ \o batch]

\* ===================================================================
\* services/gpsBuffer.ts
\* ===================================================================
BufState ==
    [buf |-> coordinateBuffer, lastFlush |-> lastFlushTime, lastC |-> lastCoords,
     infl |-> inflight, acc |-> accepted, ovl |-> overlapped]

SetBuf(bs) ==
    /\ coordinateBuffer' = bs.buf
    /\ lastFlushTime' = bs.lastFlush
    /\ lastCoords' = bs.lastC
    /\ inflight' = bs.infl
    /\ accepted' = bs.acc
    /\ overlapped' = bs.ovl

\* flushBusCoordinates(busId) up to its await of TripLog.updateOne.
\* forced: called through forceFlushBus; by: the handler call awaiting it (0: none)
flushBusCoordinates(bs, b, forced, by, now) ==
    IF bs.buf[b] = <<>> THEN bs
    ELSE [bs EXCEPT !.buf[b] = <<>>,
                    !.lastFlush[b] = now,
                    !.ovl[b] = @ \/ \E k \in DOMAIN bs.infl : bs.infl[k].bus = b,
                    !.infl = Append(@, [bus |-> b, batch |-> bs.buf[b],
                                        forced |-> forced, by |-> by])]

\* the delta check of bufferCoordinate
FarEnough(last, pt) ==
    last = <<>> \/ Dist(last[1], pt.pos) >= MIN_DISTANCE_METERS

\* mutant: lastCoords follows every point seen, also a rejected one
bufferCoordinate_LastSeen(bs, b, pt, now) ==
    IF ~FarEnough(bs.lastC[b], pt) THEN [bs EXCEPT !.lastC[b] = <<pt.pos>>]
    ELSE [bs EXCEPT !.lastC[b] = <<pt.pos>>,
                    !.lastFlush[b] = IF @ = 0 THEN now ELSE @,
                    !.buf[b] = Append(@, pt),
                    !.acc[b] = Append(@, pt)]

bufferCoordinate(bs, b, pt, now) ==
    IF ~FarEnough(bs.lastC[b], pt) THEN bs
    ELSE LET s1 == [bs EXCEPT !.lastC[b] = <<pt.pos>>,
                              !.lastFlush[b] = IF @ = 0 THEN now ELSE @,
                              !.buf[b] = Append(@, pt),
                              !.acc[b] = Append(@, pt)]
         IN  IF Len(s1.buf[b]) >= MAX_BUFFER_SIZE
             THEN flushBusCoordinates(s1, b, FALSE, 0, now)
             ELSE s1

\* flushAllBuffers: which buses the periodic timer flushes
NeedsFlush(bs, b, now) ==
    /\ bs.buf[b] # <<>>
    /\ \/ (now - bs.lastFlush[b]) * 1000 >= FLUSH_INTERVAL_MS
       \/ Len(bs.buf[b]) >= MAX_BUFFER_SIZE

RECURSIVE FlushEach(_, _, _)
FlushEach(bs, S, now) ==
    IF S = {} THEN bs
    ELSE LET b == CHOOSE x \in S : TRUE
         IN  FlushEach(flushBusCoordinates(bs, b, FALSE, 0, now), S \ {b}, now)

flushAllBuffers(bs, now) ==
    FlushEach(bs, {b \in Buses : NeedsFlush(bs, b, now)}, now)

RemoveAt(q, i) == [j \in 1..(Len(q) - 1) |-> IF j < i THEN q[j] ELSE q[j + 1]]

\* the catch block of flushBusCoordinates: the failed batch goes back into
\* the live buffer
Rebuffer(existing, batch) == existing \o batch

\* the awaited TripLog.updateOne of a flush settles (ok: resolved, ~ok: it
\* threw), flushBusCoordinates finishes and, under forceFlushBus, lastCoords
\* is deleted
SettleFlush(bs, ts, i, ok) ==
    LET op == bs.infl[i]
        s1 == [bs EXCEPT !.infl = RemoveAt(@, i)]
        s2 == IF ok THEN s1
              ELSE [s1 EXCEPT !.buf[op.bus] = Rebuffer(@, op.batch)]
    IN  [buf |-> IF op.forced THEN [s2 EXCEPT !.lastC[op.bus] = <<>>] ELSE s2,
         trips |-> IF ok THEN PushCoordinates(ts, op.bus, op.batch) ELSE ts]

\* ===================================================================
\* services/gpsHandler.ts: handleParsedMessage
\* A call is cut at its awaits: h[c].pc names the operation the call is
\* awaiting, and one step is "that operation completes and the code runs on
\* to its next await".
\* ===================================================================
Calls == 1..MaxCalls

Imeis == {"i1", "i2", "i9"}

\* getBusIdForIMEI: i1 and i2 are trackers of registered buses, i9 is unknown
BusOf(imei) ==
    CASE imei = "i1" -> "b1"
      [] imei = "i2" -> "b2"
      [] OTHER -> NoBus

\* Bus.findById(busId).populate("route") and Station.findById(route.stations[0]):
\* <<position of the first station>>, <<>> with no route or no stations
FirstStation(b) == IF b = "b1" THEN <<0>> ELSE <<>>

Alarms == {"normal", "panic", "lowBattery"}

LockKeys == (Imeis \cup Buses) \X ({"overspeed", "tripend"} \cup Alarms)

\* a ParsedMessage: coords is hasValidCoords(msg), status is
\* msg.event.string === "status" with terminalInfo present
Msg(imei, coords, p, s, status, alarm) ==
    [imei |-> imei, coords |-> coords, pos |-> p, speed |-> s,
     status |-> status, alarm |-> alarm]

IdleCall ==
    [pc |-> "idle", msg |-> Msg("i1", FALSE, 0, 0, FALSE, "normal"),
     ts |-> 0, t0 |-> 0, trip |-> 0, alertTs |-> 0]

\* coords of the message of a call
Pt(hc) == Point(hc.msg.pos, hc.msg.speed, hc.ts)

PipeState ==
    [h |-> h, trips |-> trips, alerts |-> alerts, emits |-> emits,
     locks |-> redisLock, acq |-> lockAcquiredAt, loc |-> locCache,
     lrw |-> lastRedisWriteAt, llc |-> lastLocationCache, lma |-> lastMovementAt,
     q |-> tripQueue, b |-> BufState, accFor |-> acceptedFor, rej |-> rejected,
     fo |-> failedOps]

SetPipe(st) ==
    /\ h' = st.h
    /\ trips' = st.trips
    /\ alerts' = st.alerts
    /\ emits' = st.emits
    /\ redisLock' = st.locks
    /\ lockAcquiredAt' = st.acq
    /\ locCache' = st.loc
    /\ lastRedisWriteAt' = st.lrw
    /\ lastLocationCache' = st.llc
    /\ lastMovementAt' = st.lma
    /\ tripQueue' = st.q
    /\ SetBuf(st.b)
    /\ acceptedFor' = st.accFor
    /\ rejected' = st.rej
    /\ failedOps' = st.fo

Goto(st, c, pc) == [st EXCEPT !.h[c].pc = pc]

\* the call returns
Return(st, c) == [st EXCEPT !.h[c] = IdleCall]

\* the "changed" test before the location cache write
Changed(last, pt) ==
    \/ last = <<>>
    \/ Dist(last[1].pos, pt.pos) > CACHE_DELTA_METERS
    \/ Dist(last[1].speed, pt.speed) > CACHE_DELTA_SPEED

NearStation(b, m) ==
    /\ FirstStation(b) # <<>>
    /\ Dist(m.pos, FirstStation(b)[1]) <= STATION_PROXIMITY_METERS

\* mutant: a plain SET key EX ttl, which overwrites a live key
SetNxEx_Overwrite(locks, key, ttl, now) ==
    [ok |-> TRUE, locks |-> [locks EXCEPT ![key] = now + ttl]]

\* redisClient.set(key, "1", "EX", ttl, "NX"): one atomic command
SetNxEx(locks, key, ttl, now) ==
    IF locks[key] > now THEN [ok |-> FALSE, locks |-> locks]
    ELSE [ok |-> TRUE, locks |-> [locks EXCEPT ![key] = now + ttl]]

\* acquireLock of the later revision: MULTI { SETNX key ; EXPIRE key ttl },
\* the EXPIRE runs whether or not SETNX set the key
acquireLock(locks, key, ttl, now) ==
    [ok |-> ~(locks[key] > now), locks |-> [locks EXCEPT ![key] = now + ttl]]

\* the outcome r of a lock attempt of call c is stored; a winner goes on to
\* Alert.create (its timestamp: new Date() is taken here), a loser to pcElse
Locked(st, c, key, r, now, pcOk) ==
    [st EXCEPT !.locks = r.locks, !.acq[key] = now,
               !.h[c].pc = pcOk, !.h[c].alertTs = now]

\* bufferCoordinate(busId, coords) called by the handler
HBuffer(st, b, pt, now) ==
    LET nb == bufferCoordinate(st.b, b, pt, now)
        act == ActiveTrips(st.trips, b)
    IN  [st EXCEPT !.b = nb,
                   !.accFor = IF nb.acc[b] # st.b.acc[b] /\ act # {}
                              THEN @ \cup {<<b, pt, FirstActive(st.trips, b)>>}
                              ELSE @]

\* await forceFlushBus(busId), up to the await of TripLog.updateOne inside
\* flushBusCoordinates (with an empty buffer no write is issued)
ForceFlushStart(st, c, b, now) ==
    [st EXCEPT !.b = flushBusCoordinates(@, b, TRUE, c, now), !.h[c].pc = "flush"]

\* tripQueue.add("endTrip", {busId, endCoords}); forTrip logs the trip the
\* call had found active
QueueAdd(st, c, b) ==
    LET hc == st.h[c] IN
    [st EXCEPT !.q = Append(@, [name |-> "endTrip", bus |-> b, endCoords |-> Pt(hc),
                                forTrip |-> hc.trip]),
               !.trips = IF hc.trip = 0 THEN @
                         ELSE [@ EXCEPT ![hc.trip].endJobs = @ + 1]]

\* Alert.create({bus, type, message, priority, timestamp}); id stands for the
\* _id of the document (the message whose call created it), imei and cond
\* for the tracker and condition named in its message text
AlertDoc(id, b, type, imei, cond, t) ==
    [id |-> id, bus |-> b, type |-> type, imei |-> imei, cond |-> cond, timestamp |-> t]

\* ---- handleParsedMessage, the revision with the geofence (part_003)

\* terminal / status alerts, the last section of the function
H3_Alarm(st, c) ==
    LET m == st.h[c].msg IN
    IF m.status /\ m.alarm # "normal" THEN Goto(st, c, "lockAlarm") ELSE Return(st, c)

\* trip handling: if (!busId) return
H3_Trip(st, c) ==
    IF BusOf(st.h[c].msg.imei) = NoBus THEN Return(st, c) ELSE Goto(st, c, "findTrip")

\* overspeed detection
H3_Overspeed(st, c) ==
    LET m == st.h[c].msg IN
    IF m.speed > SPEED_LIMIT_KMH /\ BusOf(m.imei) # NoBus
    THEN Goto(st, c, "lockOverspeed")
    ELSE H3_Trip(st, c)

\* the operation call c awaits completes and the call runs to its next await
H3(st, c, now) ==
    LET hc == st.h[c]
        m == hc.msg
        imei == m.imei
        bus == BusOf(imei)
        pt == Pt(hc)
    IN
    CASE hc.pc = "getBusId" ->
            LET s1 == [st EXCEPT !.emits = @ \cup {[ts |-> hc.ts, busId |-> bus]},
                                 !.h[c].t0 = now]
            IN  IF ~m.coords THEN Return(s1, c)
                ELSE IF now - st.lrw[imei] >= REDIS_LOCATION_THROTTLE_SEC
                THEN IF bus # NoBus
                     THEN IF Changed(st.llc[bus], pt)
                          THEN Goto(s1, c, "setBusLocation")
                          ELSE H3_Overspeed(s1, c)
                     ELSE Goto(s1, c, "setexImei")
                ELSE H3_Overspeed(s1, c)
      [] hc.pc = "setBusLocation" ->
            H3_Overspeed([st EXCEPT !.loc[bus] = <<pt>>, !.llc[bus] = <<pt>>,
                                    !.lrw[imei] = hc.t0], c)
      [] hc.pc = "setexImei" ->
            H3_Overspeed([st EXCEPT !.loc[imei] = <<pt>>, !.lrw[imei] = hc.t0], c)
      [] hc.pc = "lockOverspeed" ->
            LET key == <<imei, "overspeed">>
                r == SetNxEx(st.locks, key, ALERT_DEDUPE_SECONDS, now)
            IN  IF r.ok THEN Locked(st, c, key, r, now, "alertOverspeed")
                ELSE H3_Trip(st, c)
      [] hc.pc = "alertOverspeed" ->
            H3_Trip([st EXCEPT !.alerts = @ \cup
                        {AlertDoc(hc.ts, bus, "overspeed", imei, "overspeed", hc.alertTs)}], c)
      [] hc.pc = "findTrip" ->
            [st EXCEPT !.h[c].trip = IF ActiveTrips(st.trips, bus) = {} THEN 0
                                     ELSE FirstActive(st.trips, bus),
                       !.h[c].pc = "findBus"]
      [] hc.pc = "findBus" ->
            IF hc.trip = 0
            THEN IF m.speed >= MIN_SPEED_KMH /\ ~NearStation(bus, m)
                 THEN Goto(st, c, "createTrip")
                 ELSE Return(st, c)
            ELSE LET s1 == HBuffer(st, bus, pt, now) IN
                 IF FirstStation(bus) # <<>>
                 THEN IF NearStation(bus, m) /\ m.speed < END_SPEED_KMH
                      THEN ForceFlushStart(s1, c, bus, now)
                      ELSE H3_Alarm(s1, c)
                 ELSE IF m.speed >= MIN_SPEED_KMH
                      THEN H3_Alarm([s1 EXCEPT !.lma[imei] = now], c)
                      ELSE IF now - st.lma[imei] >= INACTIVITY_END_MIN * 60
                           THEN ForceFlushStart(s1, c, bus, now)
                           ELSE H3_Alarm(s1, c)
      [] hc.pc = "createTrip" ->
            LET s1 == [st EXCEPT !.trips = Append(@, NewTrip(bus, pt, hc.t0))]
                s2 == HBuffer(s1, bus, pt, now)
            IN  Return([s2 EXCEPT !.lma[imei] = now], c)
      [] hc.pc = "flush" ->
            Goto([st EXCEPT !.b.lastC[bus] = <<>>], c, "queueAdd")
      [] hc.pc = "queueAdd" ->
            H3_Alarm(QueueAdd(st, c, bus), c)
      [] hc.pc = "lockAlarm" ->
            LET key == <<imei, m.alarm>>
                r == SetNxEx(st.locks, key, ALERT_DEDUPE_SECONDS, now)
            IN  IF r.ok THEN Locked(st, c, key, r, now, "alertAlarm")
                ELSE Return(st, c)
      [] hc.pc = "alertAlarm" ->
            Return([st EXCEPT !.alerts = @ \cup
                        {AlertDoc(hc.ts, bus, IF m.alarm = "panic" THEN "panic" ELSE "system",
                                  imei, m.alarm, hc.alertTs)}], c)

\* ---- handleParsedMessage, the revision with acquireLock (part_005)

H5_Alarm(st, c) ==
    IF st.h[c].msg.alarm # "normal" THEN Goto(st, c, "lockAlarm") ELSE Return(st, c)

H5_Overspeed(st, c) ==
    IF st.h[c].msg.speed > SPEED_LIMIT_KMH
    THEN Goto(st, c, "lockOverspeed")
    ELSE Goto(st, c, "findTrip")

H5(st, c, now) ==
    LET hc == st.h[c]
        m == hc.msg
        imei == m.imei
        bus == BusOf(imei)
        pt == Pt(hc)
    IN
    CASE hc.pc = "getBusId" ->
            LET s1 == [st EXCEPT !.emits = @ \cup {[ts |-> hc.ts, busId |-> bus]},
                                 !.h[c].t0 = now]
            IN  IF ~m.coords \/ bus = NoBus THEN Return(s1, c)
                ELSE IF /\ now - st.lrw[imei] >= REDIS_LOCATION_THROTTLE_SEC
                        /\ Changed(st.llc[bus], pt)
                THEN Goto(s1, c, "setBusLocation")
                ELSE H5_Overspeed(s1, c)
      [] hc.pc = "setBusLocation" ->
            H5_Overspeed([st EXCEPT !.loc[bus] = <<pt>>, !.llc[bus] = <<pt>>,
                                    !.lrw[imei] = hc.t0], c)
      [] hc.pc = "lockOverspeed" ->
            LET key == <<imei, "overspeed">>
                r == acquireLock(st.locks, key, ALERT_DEDUPE_SECONDS, now)
            IN  IF r.ok THEN Locked(st, c, key, r, now, "alertOverspeed")
                ELSE Goto([st EXCEPT !.locks = r.locks], c, "findTrip")
      [] hc.pc = "alertOverspeed" ->
            Goto([st EXCEPT !.alerts = @ \cup
                        {AlertDoc(hc.ts, bus, "overspeed", imei, "overspeed", hc.alertTs)}],
                 c, "findTrip")
      [] hc.pc = "findTrip" ->
            [st EXCEPT !.h[c].trip = IF ActiveTrips(st.trips, bus) = {} THEN 0
                                     ELSE FirstActive(st.trips, bus),
                       !.h[c].pc = "findBus"]
      [] hc.pc = "findBus" ->
            IF hc.trip = 0
            THEN IF m.speed >= MIN_SPEED_KMH
                 THEN Goto(st, c, "createTrip")
                 ELSE Return(st, c)
            ELSE LET s1 == HBuffer(st, bus, pt, now)
                     lastMove == IF st.lma[imei] = 0 THEN now ELSE st.lma[imei]
                 IN  IF m.speed >= MIN_SPEED_KMH
                     THEN Return([s1 EXCEPT !.lma[imei] = now], c)
                     ELSE IF now - lastMove >= INACTIVITY_END_MIN * 60
                          THEN Goto(s1, c, "lockTripEnd")
                          ELSE H5_Alarm(s1, c)
      [] hc.pc = "createTrip" ->
            LET s1 == [st EXCEPT !.trips = Append(@, NewTrip(bus, pt, hc.t0))]
                s2 == HBuffer(s1, bus, pt, now)
            IN  Return([s2 EXCEPT !.lma[imei] = now], c)
      [] hc.pc = "lockTripEnd" ->
            LET key == <<bus, "tripend">>
                r == acquireLock(st.locks, key, ALERT_DEDUPE_SECONDS, now)
                s1 == [st EXCEPT !.locks = r.locks]
            IN  IF r.ok THEN ForceFlushStart([s1 EXCEPT !.acq[key] = now], c, bus, now)
                ELSE Return(s1, c)
      [] hc.pc = "flush" ->
            Goto([st EXCEPT !.b.lastC[bus] = <<>>], c, "queueAdd")
      [] hc.pc = "queueAdd" ->
            H5_Alarm(QueueAdd(st, c, bus), c)
      [] hc.pc = "lockAlarm" ->
            LET key == <<imei, m.alarm>>
                r == acquireLock(st.locks, key, ALERT_DEDUPE_SECONDS, now)
            IN  IF r.ok THEN Locked(st, c, key, r, now, "alertAlarm")
                ELSE Return([st EXCEPT !.locks = r.locks], c)
      [] hc.pc = "alertAlarm" ->
            Return([st EXCEPT !.alerts = @ \cup
                        {AlertDoc(hc.ts, bus, "system", imei, m.alarm, hc.alertTs)}], c)

\* ---- an awaited operation throws

\* no try block encloses the await: the promise of the call is rejected
Reject(st, c) == [Return(st, c) EXCEPT !.rej = @ \cup {st.h[c].ts}]

\* part_003: the try blocks around the cache write (111-136), the overspeed
\* alert (141-158), the trip handling (162-244) and the terminal alert
\* (251-278); the control continues after the catch
H3_Catch(st, c) ==
    LET pc == st.h[c].pc IN
    CASE pc = "getBusId" -> Reject(st, c)
      [] pc \in {"setBusLocation", "setexImei"} -> H3_Overspeed(st, c)
      [] pc \in {"lockOverspeed", "alertOverspeed"} -> H3_Trip(st, c)
      [] pc \in {"findTrip", "findBus", "createTrip", "queueAdd"} -> H3_Alarm(st, c)
      [] pc \in {"lockAlarm", "alertAlarm"} -> Return(st, c)

\* part_005: try blocks around the cache write (105-126) and the trip logic
\* (145-206) only
H5_Catch(st, c) ==
    LET pc == st.h[c].pc IN
    CASE pc = "getBusId" -> Reject(st, c)
      [] pc = "setBusLocation" -> H5_Overspeed(st, c)
      [] pc \in {"lockOverspeed", "alertOverspeed"} -> Reject(st, c)
      [] pc \in {"findTrip", "findBus", "createTrip", "lockTripEnd", "queueAdd"} ->
            H5_Alarm(st, c)
      [] pc \in {"lockAlarm", "alertAlarm"} -> Reject(st, c)

\* ---- the pipeline: calls of handleParsedMessage, the flush timer, the worker

IdleWorker ==
    [st |-> "idle", bus |-> NoBus, idx |-> 0, endCoords |-> Point(0, 0, 0), endTime |-> 0,
     passengerCount |-> 0]

\* RFIDLog.countDocuments({trip, eventType})
CountScans(log, trip, eventType) ==
    Cardinality({k \in DOMAIN log : log[k].trip = trip /\ log[k].eventType = eventType})

\* Math.max(0, boarded - exited)
Reconciled(log, trip) ==
    LET netPassengers == CountScans(log, trip, "BOARD") - CountScans(log, trip, "EXIT")
    IN  IF netPassengers > 0 THEN netPassengers ELSE 0

NoResolve == [pc |-> "idle", imei |-> "i1"]

ImeiIdle ==
    /\ memoryCache = [i \in Imeis |-> <<>>]
    /\ populatedAt = [i \in Imeis |-> 0]
    /\ evictTimers = {}
    /\ imeiKey = [i \in Imeis |-> 0]
    /\ resolve = NoResolve

\* the processor of an endTrip job returned: the job is completed (found:
\* whether it had found an active trip)
JobDone(b, found) == [bus |-> b, found |-> found, outcome |-> "completed"]

\* workers/analyticsWorker.ts at module load: no job in cleanupQueue
CleanupJobNames == {"cleanupOldTripLogs", "clearExpiredCache"}

NoJob == [st |-> "none", attemptsMade |-> 0, attempts |-> 0, worked |-> FALSE]

CleanupIdle ==
    /\ cleanupJobs = [n \in CleanupJobNames |-> NoJob]
    /\ redisHealthy = TRUE
    /\ lastRedisError = 0

\* the process has just started: maps empty, Redis without keys, queue empty
HandlerIdle ==
    /\ h = [c \in Calls |-> IdleCall]
    /\ acceptedFor = {}
    /\ alerts = {}
    /\ emits = {}
    /\ redisLock = [k \in LockKeys |-> 0]
    /\ lockAcquiredAt = [k \in LockKeys |-> 0]
    /\ locCache = [k \in Buses \cup Imeis |-> <<>>]
    /\ lastRedisWriteAt = [i \in Imeis |-> 0]
    /\ lastLocationCache = [b \in Buses |-> <<>>]
    /\ lastMovementAt = [i \in Imeis |-> 0]
    /\ rejected = {}
    /\ failedOps = {}
    /\ tripQueue = <<>>
    /\ worker = IdleWorker
    /\ jobLog = <<>>
    /\ CleanupIdle
    /\ rfidLog = <<>>
    /\ ImeiIdle

\* tcpServer calls handleParsedMessage(m); the call runs to its first await,
\* getBusIdForIMEI
Dispatch(c, m, max) ==
    /\ ncalls < max
    /\ h[c].pc = "idle"
    /\ \A d \in Calls : d < c => h[d].pc # "idle"
    /\ ncalls' = ncalls + 1
    /\ h' = [h EXCEPT ![c] = [IdleCall EXCEPT !.pc = "getBusId", !.msg = m,
                                              !.ts = ncalls + 1]]
    /\ UNCHANGED <<tcpVars, cleanupVars, extVars, clock, bufVars, trips, alerts, emits, redisLock,
                   lockAcquiredAt, locCache, lastRedisWriteAt, lastLocationCache,
                   lastMovementAt, tripQueue, worker, revision, acceptedFor,
                   rejected, failedOps, jobLog>>

Step(st, c, now) == IF revision = 3 THEN H3(st, c, now) ELSE H5(st, c, now)

\* the operation awaited by call c completes (a flush in flight completes in
\* Settle)
H_Resume(c) ==
    /\ h[c].pc # "idle"
    /\ h[c].pc = "flush" => \A k \in DOMAIN inflight : inflight[k].by # c
    /\ SetPipe(Step(PipeState, c, clock))
    /\ UNCHANGED <<tcpVars, cleanupVars, extVars, clock, ncalls, call, worker, revision, jobLog>>

Catch(st, c) == IF revision = 3 THEN H3_Catch(st, c) ELSE H5_Catch(st, c)

\* the operation awaited by call c throws (getBusIdForIMEI: its own fallback
\* query fails too; a failing flush is caught inside flushBusCoordinates, see
\* Settle)
H_Throw(c) ==
    /\ h[c].pc \notin {"idle", "flush"}
    /\ SetPipe([Catch(PipeState, c) EXCEPT !.fo = @ \cup {<<h[c].ts, h[c].pc>>}])
    /\ UNCHANGED <<tcpVars, cleanupVars, extVars, clock, ncalls, call, worker, revision, jobLog>>

\* the TripLog.updateOne of a flush settles; a call awaiting forceFlushBus
\* goes on to tripQueue.add
Settle(i, ok) ==
    /\ i \in DOMAIN inflight
    /\ LET op == inflight[i]
           r == SettleFlush(BufState, trips, i, ok)
           s1 == [PipeState EXCEPT !.b = r.buf, !.trips = r.trips]
       IN  SetPipe(IF op.by = 0 THEN s1 ELSE Step(s1, op.by, clock))
    /\ UNCHANGED <<tcpVars, cleanupVars, extVars, clock, ncalls, call, worker, revision, jobLog>>

\* setInterval(flushAllBuffers, FLUSH_INTERVAL_MS)
P_Timer ==
    /\ \E b \in Buses : NeedsFlush(BufState, b, clock)
    /\ SetBuf(flushAllBuffers(BufState, clock))
    /\ UNCHANGED <<tcpVars, cleanupVars, extVars, clock, ncalls, call, trips, pipeVars>>

\* mutant: a job that finds no active trip is treated as an error and retried
W_Find_NoTripFails ==
    /\ worker.st = "idle"
    /\ tripQueue # <<>>
    /\ LET job == Head(tripQueue)
           act == ActiveTrips(trips, job.bus)
       IN  /\ tripQueue' = IF act = {} THEN Append(Tail(tripQueue), job)
                           ELSE Tail(tripQueue)
           /\ worker' = IF act = {} THEN IdleWorker
                        ELSE [st |-> "save", bus |-> job.bus,
                              idx |-> FirstActive(trips, job.bus),
                              endCoords |-> job.endCoords, endTime |-> clock,
                              passengerCount |->
                                  Reconciled(rfidLog, FirstActive(trips, job.bus))]
           /\ jobLog' = IF act = {}
                        THEN Append(jobLog, [JobDone(job.bus, FALSE) EXCEPT !.outcome = "failed"])
                        ELSE jobLog
    /\ UNCHANGED <<tcpVars, cleanupVars, extVars, clock, ncalls, bufVars, trips, h, alerts, emits, redisLock,
                   lockAcquiredAt, locCache, lastRedisWriteAt, lastLocationCache,
                   lastMovementAt, revision, acceptedFor, rejected, failedOps>>

\* tripWorker takes the next endTrip job; TripLog.findOne({bus, endTime: null})
\* and the RFIDLog counts complete, the document is modified in memory and
\* trip.save() is issued
W_Find ==
    /\ worker.st = "idle"
    /\ tripQueue # <<>>
    /\ LET job == Head(tripQueue)
           act == ActiveTrips(trips, job.bus)
       IN  /\ tripQueue' = Tail(tripQueue)
           /\ worker' = IF act = {} THEN IdleWorker
                        ELSE [st |-> "save", bus |-> job.bus,
                              idx |-> FirstActive(trips, job.bus),
                              endCoords |-> job.endCoords, endTime |-> clock,
                              passengerCount |->
                                  Reconciled(rfidLog, FirstActive(trips, job.bus))]
           /\ jobLog' = IF act = {} THEN Append(jobLog, JobDone(job.bus, FALSE))
                        ELSE jobLog
    /\ UNCHANGED <<tcpVars, cleanupVars, extVars, clock, ncalls, bufVars, trips, h, alerts, emits, redisLock,
                   lockAcquiredAt, locCache, lastRedisWriteAt, lastLocationCache,
                   lastMovementAt, revision, acceptedFor, rejected, failedOps>>

\* trip.save() completes
W_Save ==
    /\ worker.st = "save"
    /\ trips' = [trips EXCEPT ![worker.idx].endTime = worker.endTime,
                              ![worker.idx].status = "completed",
                              ![worker.idx].coordinates = Append(@, worker.endCoords),
                              ![worker.idx].passengerCount = worker.passengerCount]
    /\ worker' = IdleWorker
    /\ jobLog' = Append(jobLog, JobDone(worker.bus, TRUE))
    /\ UNCHANGED <<tcpVars, cleanupVars, extVars, clock, ncalls, bufVars, h, alerts, emits, redisLock,
                   lockAcquiredAt, locCache, lastRedisWriteAt, lastLocationCache,
                   lastMovementAt, tripQueue, revision, acceptedFor, rejected, failedOps>>

P_Tick(step, horizon) ==
    /\ Tick(step, horizon)
    /\ UNCHANGED <<tcpVars, cleanupVars, extVars, ncalls, bufVars, trips, pipeVars>>

\* ---- the buffer driven by its callers (SpecBuffer)
\* bufferCoordinate(busId, coords), the max-th call being the last one
B_BufferUpTo(b, p, s, max) ==
    /\ ncalls < max
    /\ ncalls' = ncalls + 1
    /\ LET pt == Point(p, s, ncalls + 1)
       IN  /\ SetBuf(bufferCoordinate(BufState, b, pt, clock))
           /\ call' = [bus |-> b, pt |-> pt]
    /\ UNCHANGED <<tcpVars, cleanupVars, extVars, clock, trips, pipeVars>>

B_Buffer(b, p, s) == B_BufferUpTo(b, p, s, MaxBufCalls)

B_Timer ==
    /\ \E b \in Buses : NeedsFlush(BufState, b, clock)
    /\ SetBuf(flushAllBuffers(BufState, clock))
    /\ UNCHANGED <<tcpVars, cleanupVars, extVars, clock, ncalls, call, trips, pipeVars>>

\* forceFlushBus(busId) up to its await; with nothing buffered
\* flushBusCoordinates returns at once and lastCoords is deleted
B_ForceFlush(b) ==
    /\ lastCoords[b] # <<>>
    /\ IF coordinateBuffer[b] = <<>>
       THEN SetBuf([BufState EXCEPT !.lastC[b] = <<>>])
       ELSE SetBuf(flushBusCoordinates(BufState, b, TRUE, 0, clock))
    /\ UNCHANGED <<tcpVars, cleanupVars, extVars, clock, ncalls, call, trips, pipeVars>>

B_Settle(i, ok) ==
    /\ i \in DOMAIN inflight
    /\ inflight[i].by = 0
    /\ LET r == SettleFlush(BufState, trips, i, ok)
       IN  SetBuf(r.buf) /\ trips' = r.trips
    /\ UNCHANGED <<tcpVars, cleanupVars, extVars, clock, ncalls, call, pipeVars>>

B_Tick ==
    /\ Tick(FLUSH_INTERVAL_MS \div 1000, MaxBufTicks * (FLUSH_INTERVAL_MS \div 1000))
    /\ UNCHANGED <<tcpVars, cleanupVars, extVars, ncalls, bufVars, trips, pipeVars>>

\* the state right after handleParsedMessage started a trip for the bus:
\* TripLog.create with the first coordinate, then bufferCoordinate of it
BufferStart ==
    /\ clock = StartClock
    /\ ncalls = 0
    /\ \E p \in Positions, s \in BufferSpeeds :
          LET first(b) == IF b \in BufferBuses THEN <<Point(p, s, 0)>> ELSE <<>> IN
          /\ trips = <<NewTrip("b1", Point(p, s, 0), StartClock)>>
          /\ coordinateBuffer = [b \in Buses |-> first(b)]
          /\ lastCoords = [b \in Buses |-> IF b \in BufferBuses THEN <<p>> ELSE <<>>]
          /\ accepted = [b \in Buses |-> first(b)]
          /\ call = [bus |-> "b1", pt |-> Point(p, s, 0)]
    /\ lastFlushTime = [b \in Buses |-> IF b \in BufferBuses THEN StartClock ELSE 0]
    /\ inflight = <<>>
    /\ overlapped = [b \in Buses |-> FALSE]

BufferNext ==
    \/ \E b \in BufferBuses, p \in Positions, s \in BufferSpeeds : B_Buffer(b, p, s)
    \/ B_Timer
    \/ \E b \in BufferBuses : B_ForceFlush(b)
    \/ \E i \in 1..MaxBufCalls + 1, ok \in BOOLEAN : B_Settle(i, ok)
    \/ B_Tick

BufferInit == TcpStart /\ BufferStart /\ HandlerIdle /\ revision = 3

SpecBuffer == BufferInit /\ [][BufferNext]_vars

Range(q) == {q[i] : i \in DOMAIN q}

InTsOrder(q) == \A j, k \in DOMAIN q : j < k => q[j].ts < q[k].ts

\* the coordinates flushes appended to a trip (the first one is the
\* coordinate TripLog.create stored)
Appended(t) == Tail(t.coordinates)

Quiescent(b) ==
    /\ coordinateBuffer[b] = <<>>
    /\ \A k \in DOMAIN inflight : inflight[k].bus # b

\* C4: with a failed flush and a later successful one (and no two flushes of
\* the bus in flight together), the coordinates appended to the trip are
\* the accepted points, each once, in the order they were accepted; once
\* nothing is pending they are exactly the accepted sequence.
C4_RetryKeepsAcceptedOrder ==
    \A i \in DOMAIN trips :
        LET b == trips[i].bus IN
        ~overlapped[b] =>
            /\ InTsOrder(Appended(trips[i]))
            /\ Quiescent(b) => Appended(trips[i]) = accepted[b]

SustainedPositions == {0, 100}

SustainedNext ==
    \/ \E b \in BufferBuses, p \in SustainedPositions, s \in BufferSpeeds :
          /\ p # call.pt.pos
          /\ inflight = <<>>
          /\ B_BufferUpTo(b, p, s, MaxSustainedCalls)
    \/ B_Timer
    \/ \E i \in 1..MaxSustainedCalls : B_Settle(i, FALSE)
    \/ B_Tick

SustainedInit == TcpStart /\ BufferStart /\ HandlerIdle /\ revision = 3

SpecSustained == SustainedInit /\ [][SustainedNext]_vars

\* C17: while every flush fails, the number of points held in one bus's
\* coordinateBuffer stays within a small multiple of MAX_BUFFER_SIZE (here:
\* twice).
C17_BufferBounded ==
    \A b \in Buses : Len(coordinateBuffer[b]) <= 2 * MAX_BUFFER_SIZE

\* ---- tcp specification
TcpNext ==
    \/ \E e \in Events, k \in 0..MaxPerChunk :
          OnData(e, [i \in 1..k |-> "location"], FALSE)
    \/ \E e \in Events : OnDispatchReturn(e)

PipeIdle ==
    /\ clock = StartClock
    /\ ncalls = 0
    /\ trips = <<>>
    /\ coordinateBuffer = [b \in Buses |-> <<>>]
    /\ lastFlushTime = [b \in Buses |-> 0]
    /\ lastCoords = [b \in Buses |-> <<>>]
    /\ inflight = <<>>
    /\ accepted = [b \in Buses |-> <<>>]
    /\ overlapped = [b \in Buses |-> FALSE]
    /\ call = [bus |-> "b1", pt |-> Point(0, 0, 0)]

TcpInit == TcpStart /\ PipeIdle /\ HandlerIdle /\ revision = 3

SpecTcp == TcpInit /\ [][TcpNext]_vars

\* C10: within one connection messages are dispatched in arrival order
\* (message ids are arrival numbers): no message is passed to
\* handleParsedMessage after a message that arrived later than it.
C10_DispatchInArrivalOrder ==
    \A i, j \in DOMAIN dispatched : i < j => dispatched[i] <= dispatched[j]

\* C27: each message decoded on the connection is passed to
\* handleParsedMessage exactly once, also when data events overlap: no
\* message is dispatched twice, and once every data event has been handled
\* to its end no decoded message was cleared undispatched.
C27_DispatchedExactlyOnce ==
    /\ \A i, j \in DOMAIN dispatched : i < j => dispatched[i] # dispatched[j]
    /\ (\A e \in Events : conn[e].st = "done")
       => \A id \in 1..arrived : id \in Range(dispatched)


\* ===================================================================
\* Acknowledgments and parse errors on one connection (SpecAck)
\* ===================================================================
\* a chunk: up to MaxAckPerChunk frames of any kind coalesced in one read
AckChunks == UNION {[1..k -> FrameKinds] : k \in 0..MaxAckPerChunk}

AckNext ==
    \/ \E e \in 1..MaxAckEvents, fs \in AckChunks, fails \in BOOLEAN :
          OnData(e, fs, fails)
    \/ \E e \in Events : OnDispatchReturn(e)

AckInit ==
    (\E r \in ServerRevs : TcpStartOf(r)) /\ PipeIdle /\ HandlerIdle /\ revision = 3

SpecAck == AckInit /\ [][AckNext]_vars

\* C11: every message decoded from a chunk (here: a chunk whose parse
\* succeeded) that requires an acknowledgment has its own acknowledgment
\* written to the connection; the write is part of the step that decoded
\* the chunk, so it precedes every dispatch of the chunk's messages.
C11_EveryAckWritten ==
    \A id \in 1..arrived :
        (NeedsAck(frames[id].kind) /\ ~frames[id].failed)
        => \E k \in DOMAIN written : written[k].serial = id

\* C12: for every login or heartbeat frame received, also when frames are
\* coalesced in one read, an acknowledgment written for its chunk carries
\* the message-type code of that frame.
C12_AckMirrorsTypeCode ==
    \A id \in 1..arrived :
        (NeedsAck(frames[id].kind) /\ ~frames[id].failed)
        => \E k \in DOMAIN written :
              /\ frames[written[k].serial].chunk = frames[id].chunk
              /\ written[k].code = Code(frames[id].kind)

\* every data event of the connection has been handled to its end
AckQuiescent == \A e \in 1..MaxAckEvents : conn[e].st = "done"

\* C15: a parse error loses no decoded message: once the connection's data
\* events have all been handled, every message decoded (from chunks before
\* and after a failing one, and from the valid frames preceding the error
\* in the failing chunk) has been passed to handleParsedMessage.
C15_ParseErrorLosesNothing ==
    AckQuiescent => \A id \in 1..arrived : id \in Range(dispatched)

\* ===================================================================
\* The pipeline with the geofence revision of the handler (Spec)
\* ===================================================================
\* location messages of a registered tracker (i1: bus b1, whose route starts
\* at the station at 0) and of an unknown tracker
TripMsgs ==
    {Msg("i1", TRUE, p, s, FALSE, "normal") : p \in {0, 100}, s \in {1, 20}}
        \cup {Msg("i9", TRUE, 100, 20, FALSE, "normal")}

Next ==
    \/ \E c \in Calls, m \in TripMsgs : Dispatch(c, m, MaxMsgs)
    \/ \E c \in Calls : H_Resume(c)
    \/ \E i \in 1..MaxMsgs, ok \in BOOLEAN : Settle(i, ok)
    \/ P_Timer
    \/ W_Find
    \/ W_Save
    \/ P_Tick(FLUSH_INTERVAL_MS \div 1000, MaxTicks * (FLUSH_INTERVAL_MS \div 1000))

Init == TcpStart /\ PipeIdle /\ HandlerIdle /\ revision = 3

Spec == Init /\ [][Next]_vars

\* C1: a bus never has more than one trip with endTime unset, also when
\* calls of handleParsedMessage for the bus overlap.
C1_OneActiveTripPerBus ==
    \A b \in Buses : Cardinality(ActiveTrips(trips, b)) <= 1

\* C3: however many positions meeting the end conditions arrive while a
\* trip is active, at most one endTrip job is enqueued for that trip.
C3_OneEndJobPerTrip ==
    \A i \in DOMAIN trips : trips[i].endJobs <= 1

\* C5: a point accepted into the buffer while a trip was active for the bus
\* is never lost: it is still buffered, or in a flush in flight, or among
\* the coordinates of that trip.
C5_AcceptedPointsReachTrip ==
    \A a \in acceptedFor :
        \/ a[2] \in Range(coordinateBuffer[a[1]])
        \/ \E k \in DOMAIN inflight :
              inflight[k].bus = a[1] /\ a[2] \in Range(inflight[k].batch)
        \/ a[2] \in Range(trips[a[3]].coordinates)

\* C29: a point the buffer accepted while one trip was the active trip of the
\* bus is never among the coordinates a flush appended to a trip that was
\* created later.
C29_PointsStayInTheirTrip ==
    \A a \in acceptedFor :
        \A i \in DOMAIN trips :
            i > a[3] => a[2] \notin Range(Appended(trips[i]))

\* C7: a call for a location message of an unknown IMEI emits the events
\* with busId null and, in every step it takes, writes no location cache
\* entry, reads and writes no trip, buffers nothing, enqueues nothing and
\* creates no alert.
C7_UnknownImeiOnlyEmits ==
    [][\A c \in Calls :
          (/\ h[c].pc # "idle"
           /\ h[c].msg.coords
           /\ BusOf(h[c].msg.imei) = NoBus
           /\ h'[c] # h[c])
          => /\ h[c].pc = "getBusId"
                   => emits' = emits \cup {[ts |-> h[c].ts, busId |-> NoBus]}
             /\ h'[c].pc \notin {"findTrip", "findBus", "createTrip"}
             /\ UNCHANGED <<locCache, lastLocationCache, trips, coordinateBuffer,
                            accepted, inflight, tripQueue, alerts>>
    ]_vars

\* ---- the tripQueue worker driven by its producer (SpecWorker)
\* tripQueue.add("endTrip", {busId, endCoords}) as the handler issues it for
\* a slow position at the first station of the bus
Q_Add(b, p) ==
    /\ ncalls < MaxJobs
    /\ ncalls' = ncalls + 1
    /\ NearStation(b, [pos |-> p])
    /\ ActiveTrips(trips, b) # {}
    /\ tripQueue' = Append(tripQueue, [name |-> "endTrip", bus |-> b,
                                       endCoords |-> Point(p, 1, ncalls + 1),
                                       forTrip |-> FirstActive(trips, b)])
    /\ UNCHANGED <<tcpVars, cleanupVars, extVars, clock, bufVars, trips, h, alerts, emits, redisLock,
                   lockAcquiredAt, locCache, lastRedisWriteAt, lastLocationCache,
                   lastMovementAt, worker, revision, acceptedFor, rejected, failedOps,
                   jobLog>>

\* the handler starts a trip for a bus without an active trip, for a moving
\* position away from the first station: TripLog.create, bufferCoordinate,
\* lastMovementAt.set
T_Start(b, p) ==
    /\ Len(trips) < MaxTrips
    /\ ActiveTrips(trips, b) = {}
    /\ ~NearStation(b, [pos |-> p])
    /\ ncalls' = ncalls + 1
    /\ LET pt == Point(p, 20, ncalls + 1) IN
       /\ trips' = Append(trips, NewTrip(b, pt, clock))
       /\ SetBuf(bufferCoordinate(BufState, b, pt, clock))
    /\ lastMovementAt' = [i \in Imeis |-> IF BusOf(i) = b THEN clock ELSE lastMovementAt[i]]
    /\ UNCHANGED <<tcpVars, cleanupVars, extVars, clock, call, h, alerts, emits, redisLock,
                   lockAcquiredAt, locCache, lastRedisWriteAt, lastLocationCache,
                   tripQueue, worker, revision, acceptedFor, rejected, failedOps,
                   jobLog>>

Students == {"s1", "s2"}

\* determineRfidEvent(studentId, busId)
determineRfidEvent(log, ts, student, b) ==
    IF ActiveTrips(ts, b) = {} THEN "BOARD"
    ELSE LET mine == {k \in DOMAIN log : log[k].student = student
                                         /\ log[k].trip = FirstActive(ts, b)}
         IN  IF mine = {} THEN "BOARD"
             ELSE LET lastLog == log[CHOOSE k \in mine : \A j \in mine : j <= k]
                  IN  IF lastLog.eventType = "EXIT" THEN "BOARD" ELSE "EXIT"

\* handleRfidScan for the card of an active student on a known bus:
\* determineRfidEvent, TripLog.findOne({bus, status: "active"}),
\* RFIDLog.create; during logs the trip that was active for the bus
R_Scan(student, b) ==
    /\ Len(rfidLog) < MaxScans
    /\ LET found == {i \in DOMAIN trips : trips[i].bus = b /\ trips[i].status = "active"}
           activeTrip == IF found = {} THEN 0 ELSE CHOOSE i \in found : TRUE
       IN  rfidLog' = Append(rfidLog,
                [student |-> student, bus |-> b,
                 eventType |-> determineRfidEvent(rfidLog, trips, student, b),
                 trip |-> activeTrip,
                 during |-> IF ActiveTrips(trips, b) = {} THEN 0
                            ELSE FirstActive(trips, b)])
    /\ UNCHANGED <<tcpVars, cleanupVars, imeiVars, clock, ncalls, bufVars, trips, pipeVars>>

WorkerNext ==
    \/ \E b \in BufferBuses, p \in Positions : Q_Add(b, p)
    \/ \E st \in Students, b \in BufferBuses : R_Scan(st, b)
    \/ \E b \in BufferBuses, p \in Positions : T_Start(b, p)
    \/ W_Find
    \/ W_Save
    \/ B_Tick

WorkerInit == TcpStart /\ BufferStart /\ HandlerIdle /\ revision = 3

SpecWorker == WorkerInit /\ [][WorkerNext]_vars

\* ---- the trip service beside the worker (SpecService)
\* TripService.endTrip({busId, endCoords}): TripLog.updateOne({bus, endTime:
\* null}, {$set: {endTime: new Date(), endCoordinates: endCoords}}), which
\* updates one matching document or none and may fail (ok = FALSE, caught);
\* then cacheHelpers.clearBusLocation(busId) deletes the location key
S_EndTrip(b, p, ok) ==
    /\ ncalls < MaxJobs
    /\ ncalls' = ncalls + 1
    /\ trips' = IF ok /\ ActiveTrips(trips, b) # {}
                THEN [trips EXCEPT ![FirstActive(trips, b)].endTime = clock,
                                   ![FirstActive(trips, b)].endCoordinates =
                                        <<Point(p, 1, ncalls + 1)>>]
                ELSE trips
    /\ locCache' = [locCache EXCEPT ![b] = <<>>]
    /\ UNCHANGED <<tcpVars, cleanupVars, extVars, clock, bufVars, h, alerts, emits, redisLock,
                   lockAcquiredAt, lastRedisWriteAt, lastLocationCache,
                   lastMovementAt, tripQueue, worker, revision, acceptedFor, rejected,
                   failedOps, jobLog>>

ServiceNext ==
    \/ WorkerNext
    \/ \E b \in BufferBuses, p \in Positions, ok \in BOOLEAN : S_EndTrip(b, p, ok)

SpecService == WorkerInit /\ [][ServiceNext]_vars

\* C30: every TripLog has status "completed" exactly when its endTime is set.
C30_CompletedIffEnded ==
    \A i \in DOMAIN trips :
        (trips[i].status = "completed") <=> (trips[i].endTime # 0)

\* C22: the save of an endTrip job leaves the trip with endTime set, status
\* completed, the job's endCoords as last coordinate, distance the sum of
\* the distances between consecutive coordinates, duration endTime -
\* startTime, and avgSpeed distance / (duration / 3600) when the duration is
\* positive and 0 otherwise.
C22_EndTripTotals ==
    [][(worker.st = "save" /\ worker'.st = "idle")
       => LET t == trips'[worker.idx]
              cs == t.coordinates
              sum[n \in 0..Len(cs)] ==
                  IF n <= 1 THEN 0 ELSE sum[n - 1] + Dist(cs[n - 1].pos, cs[n].pos)
          IN  /\ t.endTime # 0
              /\ t.status = "completed"
              /\ cs[Len(cs)] = worker.endCoords
              /\ t.distance = sum[Len(cs)]
              /\ t.duration = t.endTime - t.startTime
              /\ t.avgSpeed = IF t.duration > 0
                              THEN (t.distance * 3600) \div t.duration
                              ELSE 0
    ]_vars

\* C23: the passengerCount an endTrip job saves is max(0, boarded - exited),
\* boarded and exited being the BOARD and EXIT scans logged for the bus
\* while the trip was its active trip, as counted when the job reads them.
C23_PassengerCount ==
    [][/\ (worker.st = "idle" /\ worker'.st = "save")
          => LET n(e) == Cardinality({k \in DOMAIN rfidLog :
                              /\ rfidLog[k].bus = worker'.bus
                              /\ rfidLog[k].during = worker'.idx
                              /\ rfidLog[k].eventType = e})
             IN  worker'.passengerCount =
                     IF n("BOARD") > n("EXIT") THEN n("BOARD") - n("EXIT") ELSE 0
       /\ (worker.st = "save" /\ worker'.st = "idle")
          => trips'[worker.idx].passengerCount = worker.passengerCount
    ]_vars

\* C25: the position a trip was created with occurs exactly once among the
\* coordinates of the trip.
C25_StartPositionOnce ==
    \A i \in DOMAIN trips :
        LET cs == trips[i].coordinates
        IN  Cardinality({k \in DOMAIN cs : cs[k] = cs[1]}) = 1

\* C28: an endTrip job finalizes only the trip that was the active trip of
\* its bus when the job was enqueued.
C28_JobEndsItsOwnTrip ==
    [][(worker.st = "idle" /\ worker'.st = "save")
       => worker'.idx = Head(tripQueue).forTrip
    ]_vars

\* C14: an endTrip job that finds no TripLog with endTime unset for its bus
\* completes (it is neither failed nor put back on the queue) and changes no
\* TripLog document.
C14_NoActiveTripIsNoOp ==
    [][(/\ worker.st = "idle"
        /\ tripQueue # <<>>
        /\ ActiveTrips(trips, Head(tripQueue).bus) = {}
        /\ <<worker, jobLog>>' # <<worker, jobLog>>)
       => /\ trips' = trips
          /\ tripQueue' = Tail(tripQueue)
          /\ worker' = IdleWorker
          /\ jobLog' = Append(jobLog, JobDone(Head(tripQueue).bus, FALSE))
    ]_vars

\* an endTrip job was processed that found no active trip for its bus
C14_Witness ==
    \E k \in DOMAIN jobLog : ~jobLog[k].found /\ jobLog[k].outcome = "completed"

\* C19: when the awaited forceFlushBus of a call returns and the call goes on
\* to tripQueue.add, every point that the flush took from the buffer, the
\* ending position of the call apart, is among the coordinates of the trip
\* the call is ending.
C19_FlushedBeforeEndJob ==
    [][\A c \in Calls, k \in DOMAIN inflight :
          (h[c].pc = "flush" /\ inflight[k].by = c /\ h'[c].pc # "flush")
          => \A pt \in Range(inflight[k].batch) :
                pt.ts # h[c].ts => pt \in Range(trips'[h[c].trip].coordinates)
    ]_vars

\* ===================================================================
\* The handler with failing stores (SpecFail), either revision
\* ===================================================================
\* a speeding position away from the station, and a slow status message with
\* a panic alarm at the station
FailMsgs ==
    {Msg("i1", TRUE, 100, 95, FALSE, "normal"), Msg("i1", TRUE, 0, 1, TRUE, "panic")}

FailNext ==
    \/ \E c \in Calls, m \in FailMsgs : Dispatch(c, m, MaxFailMsgs)
    \/ \E c \in Calls : H_Resume(c)
    \/ \E c \in Calls : H_Throw(c)
    \/ \E i \in 1..MaxFailMsgs, ok \in BOOLEAN : Settle(i, ok)

FailInit == TcpStart /\ PipeIdle /\ HandlerIdle /\ revision \in {3, 5}

SpecFail == FailInit /\ [][FailNext]_vars

\* C13: handleParsedMessage never rejects, whichever awaited operation
\* (identity resolution, location cache, dedup lock, Alert.create, trip
\* store, queue) fails.
C13_NeverRejects == rejected = {}

\* C18: when getBusIdForIMEI fails for a message, the call goes on as for an
\* unknown vehicle: it is not rejected, the events are emitted with busId
\* null, and the call enters neither the trip nor the alert logic.
C18_ResolutionFailureIsUnknown ==
    [][\A c \in Calls :
          (<<h[c].ts, "getBusId">> \in failedOps' \ failedOps)
          => /\ h[c].ts \notin rejected'
             /\ emits' = emits \cup {[ts |-> h[c].ts, busId |-> NoBus]}
             /\ h'[c].pc \notin {"lockOverspeed", "alertOverspeed", "findTrip", "findBus",
                                 "createTrip", "lockAlarm", "alertAlarm"}
    ]_vars

\* ===================================================================
\* workers/cronJobs.ts, workers/analyticsWorker.ts: cleanup jobs (SpecCleanup)
\* ===================================================================
\* the attempts option the job is added with
Attempts(name) == IF name = "clearExpiredCache" THEN 2 ELSE 3

\* cleanupQueue.add(name, {}, {attempts, backoff})
C_Enqueue(name) ==
    /\ cleanupJobs[name].st = "none"
    /\ cleanupJobs' = [cleanupJobs EXCEPT ![name] =
                          [NoJob EXCEPT !.st = "waiting", !.attempts = Attempts(name)]]
    /\ UNCHANGED <<redisHealthy, lastRedisError>>
    /\ UNCHANGED <<tcpVars, clock, ncalls, bufVars, trips, pipeVars, extVars>>

\* isRedisInCooldown(): the answer, and redisHealthy after the call
isRedisInCooldown(now) ==
    IF ~redisHealthy
    THEN IF now - lastRedisError < REDIS_COOLDOWN
         THEN [cooldown |-> TRUE, healthy |-> FALSE]
         ELSE [cooldown |-> FALSE, healthy |-> TRUE]
    ELSE [cooldown |-> FALSE, healthy |-> TRUE]

\* the worker takes a waiting job and runs its processor up to the first
\* await; in cooldown the processor returns at once and the job is completed
CW_Start(name) ==
    /\ cleanupJobs[name].st = "waiting"
    /\ LET r == isRedisInCooldown(clock) IN
       /\ redisHealthy' = r.healthy
       /\ cleanupJobs' = [cleanupJobs EXCEPT ![name].st =
                             IF r.cooldown THEN "completed" ELSE "active"]
    /\ UNCHANGED lastRedisError
    /\ UNCHANGED <<tcpVars, clock, ncalls, bufVars, trips, pipeVars, extVars>>

\* the deletes / updates of the job complete and the processor returns
CW_Done(name) ==
    /\ cleanupJobs[name].st = "active"
    /\ cleanupJobs' = [cleanupJobs EXCEPT ![name].st = "completed",
                                          ![name].worked = TRUE]
    /\ UNCHANGED <<redisHealthy, lastRedisError>>
    /\ UNCHANGED <<tcpVars, clock, ncalls, bufVars, trips, pipeVars, extVars>>

\* the queue's handling of a processor that threw: the job is retried until
\* its attempts are used up, then recorded in the failed set
JobFailed(job) ==
    IF job.attemptsMade + 1 < job.attempts
    THEN [job EXCEPT !.st = "waiting", !.attemptsMade = @ + 1]
    ELSE [job EXCEPT !.st = "failed", !.attemptsMade = @ + 1]

\* an awaited operation of the job throws (redisErr: ECONNRESET or a message
\* naming Redis): the catch block notes a Redis error and rethrows
CW_Throw(name, redisErr) ==
    /\ cleanupJobs[name].st = "active"
    /\ cleanupJobs' = [cleanupJobs EXCEPT ![name] = JobFailed(@)]
    /\ redisHealthy' = IF redisErr THEN FALSE ELSE redisHealthy
    /\ lastRedisError' = IF redisErr THEN clock ELSE lastRedisError
    /\ UNCHANGED <<tcpVars, clock, ncalls, bufVars, trips, pipeVars, extVars>>

\* half the cooldown
CleanupTick == REDIS_COOLDOWN \div 2

CW_Tick ==
    /\ Tick(CleanupTick, MaxCleanupTicks * CleanupTick)
    /\ UNCHANGED <<tcpVars, ncalls, bufVars, trips, pipeVars, cleanupVars, extVars>>

CleanupNext ==
    \/ \E n \in CleanupJobNames : C_Enqueue(n)
    \/ \E n \in CleanupJobNames : CW_Start(n)
    \/ \E n \in CleanupJobNames : CW_Done(n)
    \/ \E n \in CleanupJobNames, redisErr \in BOOLEAN : CW_Throw(n, redisErr)
    \/ CW_Tick

CleanupInit == TcpStart /\ PipeIdle /\ HandlerIdle /\ revision = 3

SpecCleanup == CleanupInit /\ [][CleanupNext]_vars

\* C16: no job leaves its queue without its work having been performed or a
\* record in the failed set: a completed job has done its work, and a job is
\* in the failed set only after all its attempts were made.
C16_NoJobSilentlyDropped ==
    \A n \in CleanupJobNames :
        /\ cleanupJobs[n].st = "completed" => cleanupJobs[n].worked
        /\ cleanupJobs[n].st = "failed" => cleanupJobs[n].attemptsMade = cleanupJobs[n].attempts

\* ===================================================================
\* Alert dedupe under either revision of the handler (SpecAlert)
\* ===================================================================
\* positions of bus b1 passing its first station (no trip is started there),
\* above and below the speed limit
AlertMsgs ==
    {Msg("i1", TRUE, 0, s, FALSE, "normal") : s \in {20, 95}}

\* one minute
AlertTick == ALERT_DEDUPE_SECONDS \div 2

AlertNext ==
    \/ \E c \in Calls, m \in AlertMsgs : Dispatch(c, m, MaxAlertMsgs)
    \/ \E c \in Calls : H_Resume(c)
    \/ P_Tick(AlertTick, MaxAlertTicks * AlertTick)

AlertInit == TcpStart /\ PipeIdle /\ HandlerIdle /\ revision = 3

SpecAlert == AlertInit /\ [][AlertNext]_vars

\* C2: two Alert documents of the same IMEI and condition carry timestamps
\* at least ALERT_DEDUPE_SECONDS apart, also when calls race for the key.
C2_OneAlertPerWindow ==
    \A a, b \in alerts :
        (a # b /\ a.imei = b.imei /\ a.cond = b.cond)
        => Dist(a.timestamp, b.timestamp) >= ALERT_DEDUPE_SECONDS

\* two calls for speeding positions raced: one holds the key and is creating
\* the alert, the other found the key set and went on without an alert
C2_Witness ==
    \E c, d \in Calls :
        /\ h[c].pc = "alertOverspeed"
        /\ h[d].pc = "findTrip"
        /\ h[d].msg.speed > SPEED_LIMIT_KMH
        /\ redisLock[<<"i1", "overspeed">>] > clock

\* C9: a key that is set expires ALERT_DEDUPE_SECONDS after the attempt that
\* acquired it; attempts that fail do not prolong it.
AlertV5Msgs ==
    {Msg("i1", TRUE, 100, 95, FALSE, "normal"), Msg("i1", TRUE, 100, 1, TRUE, "panic")}

AlertV5Next ==
    \/ \E c \in Calls, m \in AlertV5Msgs : Dispatch(c, m, MaxAlertMsgs)
    \/ \E c \in Calls : H_Resume(c)
    \/ \E i \in 1..MaxAlertMsgs, ok \in BOOLEAN : Settle(i, ok)
    \/ P_Timer
    \/ P_Tick(AlertTick, MaxAlertTicks * AlertTick)

AlertV5Init == TcpStart /\ PipeIdle /\ HandlerIdle /\ revision = 5

SpecAlertV5 == AlertV5Init /\ [][AlertV5Next]_vars

C9_FailedAttemptKeepsExpiry ==
    \A k \in LockKeys :
        redisLock[k] > clock => redisLock[k] = lockAcquiredAt[k] + ALERT_DEDUPE_SECONDS

\* C24: a call for a status message with a location and a non-normal alarm
\* of a registered bus does not return before the alarm step: it leaves only
\* from the attempt on the dedup key of the alarm or from the Alert.create
\* that follows it.
C24_AlarmStepAlwaysRuns ==
    [][\A c \in Calls :
          LET m == h[c].msg IN
          (/\ h[c].pc \notin {"idle", "lockAlarm", "alertAlarm"}
           /\ m.status /\ m.coords /\ m.alarm # "normal"
           /\ BusOf(m.imei) # NoBus)
          => h'[c].pc # "idle"
    ]_vars

\* ===================================================================
\* The pipeline with the acquireLock revision of the handler (SpecV5)
\* ===================================================================
\* a quarter of an hour
IdleTick == (INACTIVITY_END_MIN * 60) \div 2

V5Next ==
    \/ \E c \in Calls, m \in TripMsgs : Dispatch(c, m, MaxMsgs)
    \/ \E c \in Calls : H_Resume(c)
    \/ \E i \in 1..MaxMsgs, ok \in BOOLEAN : Settle(i, ok)
    \/ P_Timer
    \/ W_Find
    \/ W_Save
    \/ P_Tick(IdleTick, MaxIdleTicks * IdleTick)

V5Init == TcpStart /\ PipeIdle /\ HandlerIdle /\ revision = 5

SpecV5 == V5Init /\ [][V5Next]_vars

\* C8: a call that found no active trip for the bus goes on to create a trip
\* iff the speed is at least MIN_SPEED_KMH and the position is not within
\* STATION_PROXIMITY_METERS of the first station of the route (with no
\* station only the speed counts); the trip created is in progress and its
\* coordinates are the triggering position.
C8_StartRule ==
    [][\A c \in Calls :
          LET m == h[c].msg
              b == BusOf(m.imei)
          IN  /\ (h[c].pc = "findBus" /\ h[c].trip = 0 /\ h'[c] # h[c])
                 => (h'[c].pc = "createTrip"
                        <=> (m.speed >= MIN_SPEED_KMH /\ ~NearStation(b, m)))
              /\ (h[c].pc = "createTrip" /\ h'[c] # h[c])
                 => trips' = Append(trips, NewTrip(b, Pt(h[c]), h[c].t0))
    ]_vars

\* ===================================================================
\* The trip pipeline of part_003 over quarter hours (SpecInactivity)
\* ===================================================================
InactivityInit == TcpStart /\ PipeIdle /\ HandlerIdle /\ revision = 3

SpecInactivity == InactivityInit /\ [][V5Next]_vars

\* C20: a call for a position of a bus with an active trip, with a speed
\* below MIN_SPEED_KMH, at least INACTIVITY_END_MIN minutes after the last
\* movement recorded for the tracker, and not meeting the station end
\* condition, goes on to end the trip (forceFlushBus and tripQueue.add, in
\* part_005 behind the trip end lock).
C20_InactivityEndsTrip ==
    [][\A c \in Calls :
          LET m == h[c].msg
              b == BusOf(m.imei)
          IN  (/\ h[c].pc = "findBus"
               /\ h[c].trip # 0
               /\ m.speed < MIN_SPEED_KMH
               /\ ~(NearStation(b, m) /\ m.speed < END_SPEED_KMH)
               /\ lastMovementAt[m.imei] # 0
               /\ clock - lastMovementAt[m.imei] >= INACTIVITY_END_MIN * 60
               /\ h'[c] # h[c])
              => h'[c].pc \in {"flush", "queueAdd", "lockTripEnd"}
    ]_vars

\* ===================================================================
\* The trip pipeline of part_003 across a process restart (SpecRestart)
\* ===================================================================
\* positions of the tracker of b2, a bus whose route has no station
RestartMsgs ==
    {Msg("i2", TRUE, p, s, FALSE, "normal") : p \in {0, 100}, s \in {1, 20}}

\* the process is stopped while nothing is awaited and started again: the
\* module-level maps of gpsHandler and gpsBuffer are empty, MongoDB, Redis
\* and the queue keep what they hold
Restart ==
    /\ \A c \in Calls : h[c].pc = "idle"
    /\ inflight = <<>>
    /\ worker.st = "idle"
    /\ \E i \in Imeis : lastMovementAt[i] # 0
    /\ coordinateBuffer' = [b \in Buses |-> <<>>]
    /\ lastFlushTime' = [b \in Buses |-> 0]
    /\ lastCoords' = [b \in Buses |-> <<>>]
    /\ lastRedisWriteAt' = [i \in Imeis |-> 0]
    /\ lastLocationCache' = [b \in Buses |-> <<>>]
    /\ lastMovementAt' = [i \in Imeis |-> 0]
    /\ UNCHANGED <<tcpVars, cleanupVars, extVars, clock, ncalls, inflight, accepted, overlapped, call,
                   trips, revision, acceptedFor, h, alerts, emits, redisLock,
                   lockAcquiredAt, locCache, rejected, failedOps, tripQueue, worker,
                   jobLog>>

RestartNext ==
    \/ \E c \in Calls, m \in RestartMsgs : Dispatch(c, m, MaxMsgs)
    \/ \E c \in Calls : H_Resume(c)
    \/ \E i \in 1..MaxMsgs, ok \in BOOLEAN : Settle(i, ok)
    \/ P_Timer
    \/ W_Find
    \/ W_Save
    \/ P_Tick(IdleTick, MaxIdleTicks * IdleTick)
    \/ Restart

RestartInit == TcpStart /\ PipeIdle /\ HandlerIdle /\ revision = 3

SpecRestart == RestartInit /\ [][RestartNext]_vars

\* C21: a call that goes on to end the trip on the inactivity path (the
\* route has no station, or the revision is part_005) does so at least
\* INACTIVITY_END_MIN minutes after the start of the trip, which is the
\* earliest time the bus can have last reported a speed of MIN_SPEED_KMH or
\* more.
C21_EndsOnlyAfterInactivity ==
    [][\A c \in Calls :
          LET b == BusOf(h[c].msg.imei) IN
          (/\ h[c].pc = "findBus"
           /\ h[c].trip # 0
           /\ h'[c].pc \in {"flush", "lockTripEnd"}
           /\ (revision = 5 \/ FirstStation(b) = <<>>))
          => clock - trips[h[c].trip].startTime >= INACTIVITY_END_MIN * 60
    ]_vars

\* ===================================================================
\* utils/imeiCache.ts: getBusIdForIMEI (SpecImei)
\* One call at a time, cut at its awaits; resolve.pc names the awaited
\* operation.
\* ===================================================================
\* memoryCache.set(imei, id), with or without the setTimeout that deletes
\* the entry IMEI_TTL seconds later; the call returns
Populate(imei, timed) ==
    /\ memoryCache' = [memoryCache EXCEPT ![imei] = <<BusOf(imei)>>]
    /\ populatedAt' = [populatedAt EXCEPT ![imei] = clock]
    /\ evictTimers' = IF timed
                      THEN evictTimers \cup {[imei |-> imei, at |-> clock + IMEI_TTL]}
                      ELSE evictTimers
    /\ resolve' = NoResolve

\* getBusIdForIMEI(imei) up to its first await: a memory hit returns at once
I_Start(imei) ==
    /\ resolve.pc = "idle"
    /\ ncalls < MaxResolves
    /\ ncalls' = ncalls + 1
    /\ resolve' = IF memoryCache[imei] # <<>> THEN NoResolve
                  ELSE [pc |-> "redisGet", imei |-> imei]
    /\ UNCHANGED <<memoryCache, populatedAt, evictTimers, imeiKey>>
    /\ UNCHANGED <<tcpVars, cleanupVars, rfidLog, clock, bufVars, trips, pipeVars>>

\* the awaited operation resolves (ok) or throws (~ok)
I_Resume(ok) ==
    /\ resolve.pc # "idle"
    /\ LET imei == resolve.imei
           to(pc) == /\ resolve' = [resolve EXCEPT !.pc = pc]
                     /\ UNCHANGED <<memoryCache, populatedAt, evictTimers>>
       IN  CASE resolve.pc = "redisGet" ->
                  /\ IF ~ok THEN to("fallbackFind")
                     ELSE IF imeiKey[imei] > clock /\ BusOf(imei) # NoBus
                          THEN Populate(imei, TRUE)
                          ELSE to("dbFind")
                  /\ UNCHANGED imeiKey
             [] resolve.pc = "dbFind" ->
                  /\ to(IF ok THEN "setex" ELSE "fallbackFind")
                  /\ UNCHANGED imeiKey
             [] resolve.pc = "setex" ->
                  IF ok
                  THEN /\ imeiKey' = [imeiKey EXCEPT ![imei] = clock + IMEI_TTL]
                       /\ Populate(imei, TRUE)
                  ELSE to("fallbackFind") /\ UNCHANGED imeiKey
             [] resolve.pc = "fallbackFind" ->
                  /\ IF ok THEN Populate(imei, FALSE)
                     ELSE /\ resolve' = NoResolve
                          /\ UNCHANGED <<memoryCache, populatedAt, evictTimers>>
                  /\ UNCHANGED imeiKey
    /\ UNCHANGED <<tcpVars, cleanupVars, rfidLog, clock, ncalls, bufVars, trips, pipeVars>>

\* a setTimeout callback runs: memoryCache.delete(imei)
I_Evict ==
    /\ \E t \in evictTimers :
          /\ t.at <= clock
          /\ memoryCache' = [memoryCache EXCEPT ![t.imei] = <<>>]
          /\ evictTimers' = evictTimers \ {t}
    /\ UNCHANGED <<populatedAt, imeiKey, resolve>>
    /\ UNCHANGED <<tcpVars, cleanupVars, rfidLog, clock, ncalls, bufVars, trips, pipeVars>>

\* half a TTL passes; a timer that is due runs before time goes on
I_Tick ==
    /\ \A t \in evictTimers : t.at > clock
    /\ Tick(IMEI_TTL \div 2, MaxImeiTicks * (IMEI_TTL \div 2))
    /\ UNCHANGED <<tcpVars, cleanupVars, extVars, ncalls, bufVars, trips, pipeVars>>

ImeiNext ==
    \/ \E i \in Imeis : I_Start(i)
    \/ \E ok \in BOOLEAN : I_Resume(ok)
    \/ I_Evict
    \/ I_Tick

ImeiInit == TcpStart /\ PipeIdle /\ HandlerIdle /\ revision = 3

SpecImei == ImeiInit /\ [][ImeiNext]_vars

\* C26: an entry of memoryCache is at most IMEI_TTL seconds old, whichever
\* path populated it.
C26_EntryEvictedWithinTtl ==
    \A i \in Imeis :
        memoryCache[i] # <<>> => clock - populatedAt[i] <= IMEI_TTL

============================================================================
